---- MODULE Spec2Model ----
(***************************************************************************)
(* Model of src/main.py: a FastAPI gateway with                            *)
(*   - bearer authentication (HTTPBearer + firebase verify_id_token),      *)
(*   - a shared-secret gate for /api/upload-image,                         *)
(*   - two time-based caches in front of the HeyGen catalog API,           *)
(*   - a proxy to an n8n webhook.                                          *)
(* Requests are handled by coroutines of one event loop: a handler runs    *)
(* without interruption between two awaits, so every action below is the   *)
(* code between two suspension points of one request.                      *)
(***************************************************************************)
EXTENDS Integers, Sequences, FiniteSets, TLC

\* ---------------------------------------------------------------- bounds
\* request slots that can be in flight together
MaxReq == 2
\* requests received in one behaviour
MaxStarted == 2
\* requests received in one behaviour of the catalog proxy taken alone
MaxCatalogStarted == 3
\* clock advances in one behaviour
MaxTicks == 2
\* wall-clock reading (time.time()) when the process starts
StartTime == 5000

\* ------------------------------------------------------------- constants
CACHE_DURATION_SECONDS == 3600

\* Python's None (also what response.json() gives for the JSON text null)
None == "None"

Req == 1..MaxReq
\* how far the clock may move in one advance: 1 s, and TTL - 1 s, so that
\* an entry is seen at the ages TTL - 1 and, after two advances, TTL
Deltas == {1, CACHE_DURATION_SECONDS - 1}

\* ------------------------------------------------------------- endpoints
Protected == {"/api/me", "/api/voices", "/api/avatars", "/api/n8n"}

\* ----------------------------------------------------------- credentials
\* What the Authorization header of a request holds.  NoCredentials is a
\* request without the header; "forged" is a bearer token Firebase rejects.
NoCredentials == "NoCredentials"
Tokens == {NoCredentials, "forged", "tokA", "tokB"}

\* user_data of a request that has no verified identity
NoUser == [uid |-> None, email |-> None]

\* firebase_admin.auth.verify_id_token: the decoded claims of a valid token
\* (uid is always present: it is the token's subject); NoUser stands for
\* the exception it raises on any other token.
verify_id_token(id_token) ==
    CASE id_token = "tokA" -> [uid |-> "u1", email |-> "a@x"]
      [] id_token = "tokB" -> [uid |-> "u2", email |-> "b@x"]
      [] OTHER -> NoUser

\* fastapi.security.HTTPBearer() with its default auto_error=True answers a
\* request without credentials itself, before get_current_user runs.  The
\* status it uses is 403 in the FastAPI releases up to 0.121 and 401 from
\* 0.122 on; the repository pins no version, so both are possible.
HTTPBearerMissingStatus == {401, 403}

\* Depends(security_scheme) then get_current_user: the status and user_data
\* of the dependency.  Status 0: the dependency returned, the handler runs.
get_current_user(token) ==
    IF token = NoCredentials
    THEN {[status |-> s, user_data |-> NoUser] : s \in HTTPBearerMissingStatus}
    ELSE IF verify_id_token(token) = NoUser
         THEN {[status |-> 401, user_data |-> NoUser]}
         ELSE {[status |-> 0, user_data |-> verify_id_token(token)]}

\* ------------------------------------------------------------ the caches
\* JSON values the catalog API can answer with.  None is JSON null,
\* "{}" and "[]" are the empty object and list; "P1", "P2" are catalogs.
Payloads == {None, "{}", "P1", "P2"}

\* Python truthiness of a decoded JSON value
Truthy(v) == v \notin {None, "{}", "[]", "0", "", "false"}

\* the cache check with the age compared the wrong way round
CacheHit_WrongWay(cache, current_time) ==
    Truthy(cache.data) /\ (current_time - cache.timestamp > CACHE_DURATION_SECONDS)

\* the cache check with an entry of age TTL still served
CacheHit_Inclusive(cache, current_time) ==
    Truthy(cache.data) /\ (current_time - cache.timestamp <= CACHE_DURATION_SECONDS)

\* the condition of the `if` that serves from the cache
CacheHit(cache, current_time) ==
    Truthy(cache.data) /\ (current_time - cache.timestamp < CACHE_DURATION_SECONDS)

VARIABLES
    clock,            \* time.time()
    ticks,            \* number of clock advances so far
    started,          \* number of requests received so far
    N8N_SECRET_KEY,   \* os.getenv("N8N_SECRET_KEY"), read once at import
    voices_cache,     \* [data, timestamp]
    avatars_cache,    \* [data, timestamp]
    receivedAt,       \* per kind: the time the stored data arrived from HeyGen
    heygenCalls,      \* per kind: GET requests sent to the catalog API
    files,            \* static/images: the files, as [name, content]
    uuidsIssued,      \* number of uuid.uuid4() calls so far
    req,              \* the request each slot is handling
    last              \* the request that responded last, with its response

vars == <<clock, ticks, started, N8N_SECRET_KEY, voices_cache, avatars_cache,
          receivedAt, heygenCalls, files, uuidsIssued, req, last>>


\* ------------------------------------------------------ shared-secret gate
\* values of os.getenv("N8N_SECRET_KEY"): unset, set to "", set to a secret
SecretConfigs == {None, "", "s3cr3t"}
\* values of the x-n8n-secret header: absent, empty, the secret, another one
SecretHeaders == {None, "", "s3cr3t", "wrong"}

\* Python truthiness of an optional string
NonEmptyStr(s) == s \notin {None, ""}

\* verify_n8n_secret compares only a header that is present
verify_n8n_secret_HeaderOptional(x_n8n_secret, key) ==
    IF ~NonEmptyStr(key) THEN 500
    ELSE IF NonEmptyStr(x_n8n_secret) /\ x_n8n_secret # key THEN 403
    ELSE 0

\* verify_n8n_secret without the check that a secret is configured
verify_n8n_secret_FailOpen(x_n8n_secret, key) ==
    IF x_n8n_secret # key THEN 403 ELSE 0

\* verify_n8n_secret: 0 when it returns True, else the status it raises
verify_n8n_secret(x_n8n_secret, key) ==
    IF ~NonEmptyStr(key) THEN 500
    ELSE IF x_n8n_secret # key THEN 403
    ELSE 0

\* ------------------------------------------------------------ requests
NoTime == 0 - 1

\* the outgoing webhook payload of a request that sent none
NoPayload ==
    [message |-> None, botId |-> None, avatarId |-> None, voiceId |-> None,
     videoWidth |-> None, videoHeight |-> None, type |-> None, uid |-> None]

\* the JSON body of a request that carries none
NoBody ==
    [message |-> "absent", botId |-> "absent", type |-> "absent",
     avatarId |-> "absent", videoWidth |-> "absent", uid |-> "absent"]

\* pc: idle, ready (dependencies resolved), fetching / posting / writing
\*     (suspended in an await), done.
\* status, content: the response.  outcome, fetched, text: what the
\* downstream call of the request produced.  sent: the webhook payload.
\* calls, cacheReads, cacheWrites, filesWritten: what the request did.
IdleReq ==
    [pc |-> "idle", endpoint |-> "-", token |-> "-", header |-> "-",
     user_data |-> NoUser, current_time |-> NoTime, status |-> 0,
     content |-> <<>>, outcome |-> "-", fetched |-> None, text |-> <<>>,
     body |-> NoBody, sent |-> NoPayload, filename |-> <<>>,
     file_path |-> <<>>,
     calls |-> 0, cacheReads |-> 0, cacheWrites |-> 0, filesWritten |-> 0,
     source |-> "-", servedReceivedAt |-> NoTime]

\* the terminal response of a request
Respond(q, status, content) ==
    [q EXCEPT !.pc = "done", !.status = status, !.content = content]

Free(r) == req[r].pc = "idle" /\ started < MaxStarted
FreeWithin(r, budget) == req[r].pc = "idle" /\ started < budget

\* request r goes on as q (it suspends in an await, or its handler is due)
Continue(r, q) ==
    /\ req' = [req EXCEPT ![r] = q]
    /\ UNCHANGED last

\* request r ends as q, which holds its response; the slot is free again
Finish(r, q) ==
    /\ req' = [req EXCEPT ![r] = IdleReq]
    /\ last' = q

Init ==
    /\ clock = StartTime
    /\ ticks = 0
    /\ started = 0
    /\ N8N_SECRET_KEY \in SecretConfigs
    /\ voices_cache = [data |-> None, timestamp |-> 0]
    /\ avatars_cache = [data |-> None, timestamp |-> 0]
    /\ receivedAt = [voices |-> NoTime, avatars |-> NoTime]
    /\ heygenCalls = [voices |-> 0, avatars |-> 0]
    /\ files = {}
    /\ uuidsIssued = 0
    /\ req = [r \in Req |-> IdleReq]
    /\ last = IdleReq

\* time passes (between any two steps of any requests)
Tick ==
    /\ ticks < MaxTicks
    /\ \E d \in Deltas : clock' = clock + d
    /\ ticks' = ticks + 1
    /\ UNCHANGED <<started, N8N_SECRET_KEY, voices_cache, avatars_cache,
                   receivedAt, heygenCalls, files, uuidsIssued, req, last>>

\* A request to a protected endpoint arrives and FastAPI resolves
\* Depends(get_current_user): either the dependency raises and the request
\* ends there, or the handler is ready to run with user_data.
Receive(r, endpoints, budget) ==
    /\ FreeWithin(r, budget)
    /\ \E ep \in endpoints, token \in Tokens :
         \E dep \in get_current_user(token) :
           LET q == [IdleReq EXCEPT !.endpoint = ep, !.token = token,
                                    !.user_data = dep.user_data]
           IN IF dep.status = 0
              THEN Continue(r, [q EXCEPT !.pc = "ready"])
              ELSE Finish(r, Respond(q, dep.status, <<"detail">>))
    /\ started' = started + 1
    /\ UNCHANGED <<clock, ticks, N8N_SECRET_KEY, voices_cache, avatars_cache,
                   receivedAt, heygenCalls, files, uuidsIssued>>

ReceiveProtected(r) == Receive(r, Protected, MaxStarted)

\* GET / : public
root(r) ==
    /\ Free(r)
    /\ Finish(r, Respond([IdleReq EXCEPT !.endpoint = "/"], 200, <<"public">>))
    /\ started' = started + 1
    /\ UNCHANGED <<clock, ticks, N8N_SECRET_KEY, voices_cache, avatars_cache,
                   receivedAt, heygenCalls, files, uuidsIssued>>

\* GET /api/me
get_my_info(r) ==
    /\ req[r].pc = "ready"
    /\ req[r].endpoint = "/api/me"
    /\ Finish(r, Respond(req[r], 200, <<"Hola", req[r].user_data.email,
                                         req[r].user_data.uid>>))
    /\ UNCHANGED <<clock, ticks, started, N8N_SECRET_KEY, voices_cache,
                   avatars_cache, receivedAt, heygenCalls, files, uuidsIssued>>


\* ---------------------------------------------------------- catalog proxy
\* what `await client.get(...)`, raise_for_status() and response.json() give
CatalogOutcomes ==
    {[kind |-> "ok", json |-> p] : p \in Payloads}
      \cup {[kind |-> k, json |-> None] :
              k \in {"network_error", "http_error", "invalid_json"}}

\* the refresh with the timestamp assigned before the try block
Refresh_StampFirst(cache, outcome, current_time) ==
    IF outcome.kind = "ok"
    THEN [cache |-> [data |-> outcome.json, timestamp |-> current_time],
          writes |-> 2, status |-> 200, content |-> <<outcome.json>>]
    ELSE [cache |-> [cache EXCEPT !.timestamp = current_time], writes |-> 1,
          status |-> 502, content |-> <<"detail">>]

\* the refresh with time.time() read again when the result is stored
Refresh_StampNow(cache, outcome, current_time) ==
    IF outcome.kind = "ok"
    THEN [cache |-> [data |-> outcome.json, timestamp |-> clock],
          writes |-> 2, status |-> 200, content |-> <<outcome.json>>]
    ELSE [cache |-> cache, writes |-> 0,
          status |-> 502, content |-> <<"detail">>]

\* the refresh that stores the payload and leaves the timestamp of the
\* refresh before it
Refresh_DataOnly(cache, outcome, current_time) ==
    IF outcome.kind = "ok"
    THEN [cache |-> [data |-> outcome.json, timestamp |-> cache.timestamp],
          writes |-> 1, status |-> 200, content |-> <<outcome.json>>]
    ELSE [cache |-> cache, writes |-> 0,
          status |-> 502, content |-> <<"detail">>]

\* the refresh whose except branch empties the entry before it raises
Refresh_ClearsOnFailure(cache, outcome, current_time) ==
    IF outcome.kind = "ok"
    THEN [cache |-> [data |-> outcome.json, timestamp |-> current_time],
          writes |-> 2, status |-> 200, content |-> <<outcome.json>>]
    ELSE [cache |-> [data |-> None, timestamp |-> 0], writes |-> 2,
          status |-> 502, content |-> <<"detail">>]

\* the refresh that stamps the entry with the duration of the fetch
Refresh_StampElapsed(cache, outcome, current_time) ==
    IF outcome.kind = "ok"
    THEN [cache |-> [data |-> outcome.json,
                     timestamp |-> clock - current_time],
          writes |-> 2, status |-> 200, content |-> <<outcome.json>>]
    ELSE [cache |-> cache, writes |-> 0,
          status |-> 502, content |-> <<"detail">>]

\* The try/except of get_voices and get_avatars once the await returns:
\* the new cache entry, the number of assignments to it and the response.
Refresh(cache, outcome, current_time) ==
    IF outcome.kind = "ok"
    THEN [cache |-> [data |-> outcome.json, timestamp |-> current_time],
          writes |-> 2, status |-> 200, content |-> <<outcome.json>>]
    ELSE [cache |-> cache, writes |-> 0,
          status |-> 502, content |-> <<"detail">>]

\* GET /api/voices up to its first await: the cache check
get_voices(r) ==
    /\ req[r].pc = "ready"
    /\ req[r].endpoint = "/api/voices"
    /\ LET q == [req[r] EXCEPT !.current_time = clock,
                               !.cacheReads = @ + 1]
       IN IF CacheHit(voices_cache, clock)
          THEN /\ Finish(r, Respond([q EXCEPT !.source = "cache",
                                              !.servedReceivedAt =
                                                 receivedAt.voices],
                                    200, <<voices_cache.data>>))
               /\ UNCHANGED heygenCalls
          ELSE /\ Continue(r, [q EXCEPT !.pc = "fetching", !.calls = @ + 1])
               /\ heygenCalls' = [heygenCalls EXCEPT !.voices = @ + 1]
    /\ UNCHANGED <<clock, ticks, started, N8N_SECRET_KEY, voices_cache,
                   avatars_cache, receivedAt, files, uuidsIssued>>

\* GET /api/voices from the return of its await to the response
get_voices_response(r) ==
    /\ req[r].pc = "fetching"
    /\ req[r].endpoint = "/api/voices"
    /\ \E outcome \in CatalogOutcomes :
         LET res == Refresh(voices_cache, outcome, req[r].current_time)
         IN /\ voices_cache' = res.cache
            /\ receivedAt' = IF outcome.kind = "ok"
                             THEN [receivedAt EXCEPT !.voices = clock]
                             ELSE receivedAt
            /\ Finish(r, Respond([req[r] EXCEPT
                                     !.outcome = outcome.kind,
                                     !.fetched = outcome.json,
                                     !.source = "fetch",
                                     !.cacheWrites =
                                        res.writes],
                                  res.status, res.content))
    /\ UNCHANGED <<clock, ticks, started, N8N_SECRET_KEY, avatars_cache,
                   heygenCalls, files, uuidsIssued>>

\* GET /api/avatars up to its first await: the cache check
get_avatars(r) ==
    /\ req[r].pc = "ready"
    /\ req[r].endpoint = "/api/avatars"
    /\ LET q == [req[r] EXCEPT !.current_time = clock,
                               !.cacheReads = @ + 1]
       IN IF CacheHit(avatars_cache, clock)
          THEN /\ Finish(r, Respond([q EXCEPT !.source = "cache",
                                              !.servedReceivedAt =
                                                 receivedAt.avatars],
                                    200, <<avatars_cache.data>>))
               /\ UNCHANGED heygenCalls
          ELSE /\ Continue(r, [q EXCEPT !.pc = "fetching", !.calls = @ + 1])
               /\ heygenCalls' = [heygenCalls EXCEPT !.avatars = @ + 1]
    /\ UNCHANGED <<clock, ticks, started, N8N_SECRET_KEY, voices_cache,
                   avatars_cache, receivedAt, files, uuidsIssued>>

\* get_avatars as a copy of get_voices that still stores into voices_cache
get_avatars_response_VoicesEntry(r) ==
    /\ req[r].pc = "fetching"
    /\ req[r].endpoint = "/api/avatars"
    /\ \E outcome \in CatalogOutcomes :
         LET res == Refresh(voices_cache, outcome, req[r].current_time)
         IN /\ voices_cache' = res.cache
            /\ receivedAt' = IF outcome.kind = "ok"
                             THEN [receivedAt EXCEPT !.voices = clock]
                             ELSE receivedAt
            /\ Finish(r, Respond([req[r] EXCEPT
                                     !.outcome = outcome.kind,
                                     !.fetched = outcome.json,
                                     !.source = "fetch",
                                     !.cacheWrites =
                                        res.writes],
                                  res.status, res.content))
    /\ UNCHANGED <<clock, ticks, started, N8N_SECRET_KEY, avatars_cache,
                   heygenCalls, files, uuidsIssued>>

\* GET /api/avatars from the return of its await to the response
get_avatars_response(r) ==
    /\ req[r].pc = "fetching"
    /\ req[r].endpoint = "/api/avatars"
    /\ \E outcome \in CatalogOutcomes :
         LET res == Refresh(avatars_cache, outcome, req[r].current_time)
         IN /\ avatars_cache' = res.cache
            /\ receivedAt' = IF outcome.kind = "ok"
                             THEN [receivedAt EXCEPT !.avatars = clock]
                             ELSE receivedAt
            /\ Finish(r, Respond([req[r] EXCEPT
                                     !.outcome = outcome.kind,
                                     !.fetched = outcome.json,
                                     !.source = "fetch",
                                     !.cacheWrites =
                                        res.writes],
                                  res.status, res.content))
    /\ UNCHANGED <<clock, ticks, started, N8N_SECRET_KEY, voices_cache,
                   heygenCalls, files, uuidsIssued>>


\* -------------------------------------------------------- automation proxy
\* a key the client's JSON body does not hold
Absent == "absent"

\* JSON bodies clients post to /api/n8n.  Values are tagged with their JSON
\* type where the model N8NBody converts: "str:640" is the string "640".
Bodies ==
    {[message |-> "hi", botId |-> "b1", type |-> "chat", avatarId |-> Absent,
      videoWidth |-> Absent, uid |-> Absent],
     [message |-> "hi", botId |-> "b1", type |-> "chat", avatarId |-> "a1",
      videoWidth |-> "str:640", uid |-> "u2"],
     [message |-> "yo", botId |-> "b1", type |-> "chat", avatarId |-> Absent,
      videoWidth |-> "int:640", uid |-> "root"],
     [message |-> Absent, botId |-> "b1", type |-> "chat", avatarId |-> Absent,
      videoWidth |-> Absent, uid |-> Absent],
     [message |-> "hi", botId |-> "b1", type |-> "chat", avatarId |-> Absent,
      videoWidth |-> "str:wide", uid |-> Absent]}

\* pydantic's parsing of an `int | None` field: an integer stays, a string
\* of digits becomes the integer, an omitted key becomes the default None
\* and anything else is a validation error
ParseOptInt(v) ==
    CASE v = Absent -> None
      [] v = "int:640" -> "int:640"
      [] v = "str:640" -> "int:640"
      [] OTHER -> "error"

\* whether the body validates against N8NBody (else FastAPI answers 422)
N8NBodyValid(raw) ==
    /\ raw.message # Absent
    /\ raw.botId # Absent
    /\ raw.type # Absent
    /\ ParseOptInt(raw.videoWidth) # "error"

\* N8NBody(**raw).dict(): the declared fields only (a key the model does
\* not declare, such as uid, is dropped), omitted optional fields as None
N8NBody(raw) ==
    [message |-> raw.message, botId |-> raw.botId,
     avatarId |-> IF raw.avatarId = Absent THEN None ELSE raw.avatarId,
     voiceId |-> None,
     videoWidth |-> ParseOptInt(raw.videoWidth),
     videoHeight |-> None,
     type |-> raw.type]

\* the payload without the assignment of the verified uid
n8n_payload_NoInjection(body, user_data) ==
    [message |-> body.message, botId |-> body.botId,
     avatarId |-> body.avatarId, voiceId |-> body.voiceId,
     videoWidth |-> body.videoWidth, videoHeight |-> body.videoHeight,
     type |-> body.type, uid |-> None]

\* n8n_payload = body.dict(); n8n_payload["uid"] = user_uid
n8n_payload(body, user_data) ==
    [message |-> body.message, botId |-> body.botId,
     avatarId |-> body.avatarId, voiceId |-> body.voiceId,
     videoWidth |-> body.videoWidth, videoHeight |-> body.videoHeight,
     type |-> body.type, uid |-> user_data.uid]

\* response bodies of the webhook, as sequences of characters
Texts == {<<>>, <<"o", "k">>, <<"{", "\"", "a", "\"", "}">>}

\* what `await client.post(...)` and raise_for_status() give
WebhookOutcomes ==
    {[kind |-> "ok", text |-> t] : t \in Texts}
      \cup {[kind |-> k, text |-> <<>>] :
              k \in {"timeout", "connect_error", "http_error"}}

\* json.dumps of a str: the characters, quotes and backslashes escaped,
\* between double quotes
RECURSIVE JsonEscape(_)
JsonEscape(t) ==
    IF t = <<>> THEN <<>>
    ELSE (IF Head(t) \in {"\"", "\\"} THEN <<"\\", Head(t)>> ELSE <<Head(t)>>)
           \o JsonEscape(Tail(t))

JsonDumpsStr(t) == <<"\"">> \o JsonEscape(t) \o <<"\"">>

\* The handler returns the str n8n_response.text; FastAPI's default
\* response class (JSONResponse) renders a returned str as a JSON string.
ReturnStr(t) == JsonDumpsStr(t)

\* the try/except of proxy_to_n8n once the await returns
N8NResult(outcome) ==
    CASE outcome.kind = "ok" ->
           [status |-> 200, content |-> ReturnStr(outcome.text)]
      [] outcome.kind = "timeout" ->
           [status |-> 504, content |-> <<"detail">>]
      [] OTHER ->
           [status |-> 502, content |-> <<"detail">>]

\* POST /api/n8n up to its await: body validation, payload, the POST
proxy_to_n8n(r) ==
    /\ req[r].pc = "ready"
    /\ req[r].endpoint = "/api/n8n"
    /\ \E raw \in Bodies :
         IF N8NBodyValid(raw)
         THEN Continue(r, [req[r] EXCEPT
                             !.pc = "posting", !.calls = @ + 1, !.body = raw,
                             !.sent = n8n_payload(N8NBody(raw),
                                                  req[r].user_data)])
         ELSE Finish(r, Respond([req[r] EXCEPT !.body = raw],
                                422, <<"detail">>))
    /\ UNCHANGED <<clock, ticks, started, N8N_SECRET_KEY, voices_cache,
                   avatars_cache, receivedAt, heygenCalls, files, uuidsIssued>>

\* POST /api/n8n from the return of its await to the response
proxy_to_n8n_response(r) ==
    /\ req[r].pc = "posting"
    /\ \E outcome \in WebhookOutcomes :
         LET res == N8NResult(outcome)
         IN Finish(r, Respond([req[r] EXCEPT !.outcome = outcome.kind,
                                               !.text = outcome.text],
                              res.status, res.content))
    /\ UNCHANGED <<clock, ticks, started, N8N_SECRET_KEY, voices_cache,
                   avatars_cache, receivedAt, heygenCalls, files, uuidsIssued>>


\* ---------------------------------------------------------- upload receiver
\* names of uploaded files, as sequences of path pieces; "." and "/" are
\* the extension and directory separators
Filenames ==
    {<<"cat", ".", "png">>, <<"cat">>, <<".", "env">>,
     <<"a", ".", "b", "/", "c">>}

\* the bytes of an uploaded image
Images == {"bytes1", "bytes2"}

\* values of os.getenv("BACKEND_PUBLIC_URL", "http://localhost:8000")
BaseUrls == {"http://localhost:8000", "https://api.example"}

\* p.rfind(c), 1-based; 0 when c does not occur
LastIndex(p, c) ==
    LET at == {i \in 1..Len(p) : p[i] = c}
    IN IF at = {} THEN 0 ELSE CHOOSE i \in at : \A j \in at : j <= i

\* os.path.splitext(p)[1]: from the last dot of the last path component,
\* unless that component has only dots before it
splitext(p) ==
    LET sepIndex == LastIndex(p, "/")
        dotIndex == LastIndex(p, ".")
    IN IF dotIndex > sepIndex
          /\ \E i \in (sepIndex + 1)..(dotIndex - 1) : p[i] # "."
       THEN SubSeq(p, dotIndex, Len(p))
       ELSE <<>>

\* str(uuid.uuid4()): the n-th identifier generated; uuid4 identifiers are
\* taken to be distinct from one another
uuid4(n) == <<"uuid", n>>

\* the file stored under the name the client gave it
unique_filename_AsUploaded(n, filename) == filename

\* unique_filename = f"{uuid.uuid4()}{file_extension}"
unique_filename(n, filename) == uuid4(n) \o splitext(filename)

\* file_path = f"static/images/{unique_filename}"
FilePath(name) == <<"static/images/">> \o name

\* full_image_url = f"{base_url}/{file_path}"
full_image_url(base_url, file_path) == <<base_url, "/">> \o file_path

\* A request to /api/upload-image arrives and FastAPI resolves
\* Depends(verify_n8n_secret) with the x-n8n-secret header.
ReceiveUpload(r) ==
    /\ Free(r)
    /\ \E header \in SecretHeaders :
         LET q == [IdleReq EXCEPT !.endpoint = "/api/upload-image",
                                  !.header = header]
             st == verify_n8n_secret(header, N8N_SECRET_KEY)
         IN IF st = 0
            THEN Continue(r, [q EXCEPT !.pc = "ready"])
            ELSE Finish(r, Respond(q, st, <<"detail">>))
    /\ started' = started + 1
    /\ UNCHANGED <<clock, ticks, N8N_SECRET_KEY, voices_cache, avatars_cache,
                   receivedAt, heygenCalls, files, uuidsIssued>>

\* POST /api/upload-image up to `await image_file.read()`: the file name is
\* generated and open(file_path, "wb") creates (or truncates) the file
upload_image_from_n8n(r) ==
    /\ req[r].pc = "ready"
    /\ req[r].endpoint = "/api/upload-image"
    /\ \E filename \in Filenames :
         LET path == FilePath(unique_filename(uuidsIssued + 1, filename))
         IN /\ files' = {f \in files : f.name # path}
                          \cup {[name |-> path, content |-> "empty"]}
            /\ Continue(r, [req[r] EXCEPT !.pc = "writing",
                                           !.filename = filename,
                                           !.file_path = path,
                                           !.filesWritten = @ + 1])
    /\ uuidsIssued' = uuidsIssued + 1
    /\ UNCHANGED <<clock, ticks, started, N8N_SECRET_KEY, voices_cache,
                   avatars_cache, receivedAt, heygenCalls>>

\* POST /api/upload-image from the return of the await: the bytes are
\* written, the file is closed and the URL is returned
upload_image_write(r) ==
    /\ req[r].pc = "writing"
    /\ \E image \in Images, base_url \in BaseUrls :
         /\ files' = {f \in files : f.name # req[r].file_path}
                       \cup {[name |-> req[r].file_path, content |-> image]}
         /\ Finish(r, Respond(req[r], 200,
                               <<"imageUrl">>
                                 \o full_image_url(base_url,
                                                   req[r].file_path)))
    /\ UNCHANGED <<clock, ticks, started, N8N_SECRET_KEY, voices_cache,
                   avatars_cache, receivedAt, heygenCalls, uuidsIssued>>

\* ------------------------------------------------------------ the system
Next ==
    \/ Tick
    \/ \E r \in Req :
         \/ ReceiveProtected(r)
         \/ ReceiveUpload(r)
         \/ root(r)
         \/ get_my_info(r)
         \/ get_voices(r)
         \/ get_voices_response(r)
         \/ get_avatars(r)
         \/ get_avatars_response(r)
         \/ proxy_to_n8n(r)
         \/ proxy_to_n8n_response(r)
         \/ upload_image_from_n8n(r)
         \/ upload_image_write(r)

Spec == Init /\ [][Next]_vars


\* ------------------------------------------------- the parts of the system
\* The catalog proxy alone: requests to /api/voices and /api/avatars.
ReceiveCatalog(r) ==
    Receive(r, {"/api/voices", "/api/avatars"}, MaxCatalogStarted)

\* the shared secret plays no part in it
InitCatalog == Init /\ N8N_SECRET_KEY = "s3cr3t"

NextCatalog ==
    \/ Tick
    \/ \E r \in Req :
         \/ ReceiveCatalog(r)
         \/ get_voices(r)
         \/ get_voices_response(r)
         \/ get_avatars(r)
         \/ get_avatars_response(r)

SpecCatalog == InitCatalog /\ [][NextCatalog]_vars

\* The automation proxy alone: requests to /api/n8n.
ReceiveProxy(r) == Receive(r, {"/api/n8n"}, MaxStarted)

NextProxy ==
    \E r \in Req :
       \/ ReceiveProxy(r)
       \/ proxy_to_n8n(r)
       \/ proxy_to_n8n_response(r)

SpecProxy == Init /\ [][NextProxy]_vars

\* The upload receiver alone: requests to /api/upload-image.
NextUpload ==
    \E r \in Req :
       \/ ReceiveUpload(r)
       \/ upload_image_from_n8n(r)
       \/ upload_image_write(r)

SpecUpload == Init /\ [][NextUpload]_vars


\* ------------------------------------------------------------- the claims
CatalogEndpoints == {"/api/voices", "/api/avatars"}

\* the cache entry and the bookkeeping of the kind an endpoint serves
CacheOf(ep) == IF ep = "/api/voices" THEN voices_cache ELSE avatars_cache
NextCacheOf(ep) == IF ep = "/api/voices" THEN voices_cache' ELSE avatars_cache'
ReceivedAtOf(ep) ==
    IF ep = "/api/voices" THEN receivedAt.voices ELSE receivedAt.avatars
CallsOf(ep) ==
    IF ep = "/api/voices" THEN heygenCalls.voices ELSE heygenCalls.avatars

\* the credential of a request is missing or fails verification
BadCredential(q) == verify_id_token(q.token) = NoUser

\* C1: every request to a protected endpoint whose bearer credential is
\* missing or fails verification is answered 401, and has made no outbound
\* call and no read or write of a cache entry.
C1_Unauthorized ==
    (last.pc = "done" /\ last.endpoint \in Protected /\ BadCredential(last))
      => /\ last.status = 401
         /\ last.calls = 0
         /\ last.cacheReads = 0
         /\ last.cacheWrites = 0

\* C2: with a secret configured, every upload request whose x-n8n-secret
\* header is absent or differs from it is answered 403 and writes no file;
\* no such request ever gets past the gate.
C2_ForbiddenNoFile ==
    NonEmptyStr(N8N_SECRET_KEY) =>
      /\ (last.endpoint = "/api/upload-image"
            /\ last.header # N8N_SECRET_KEY)
           => /\ last.status = 403
              /\ last.filesWritten = 0
              /\ last.file_path = <<>>
      /\ \A r \in Req :
           req[r].endpoint = "/api/upload-image"
             => req[r].header = N8N_SECRET_KEY

\* a state where a request with a wrong secret has been refused after an
\* upload with the right one stored a file
C2_Witness ==
    /\ NonEmptyStr(N8N_SECRET_KEY)
    /\ last.endpoint = "/api/upload-image"
    /\ last.header \in {None, "", "wrong"}
    /\ last.status = 403
    /\ files # {}

\* C3: while no secret is configured (unset or empty) every upload request
\* is answered 500 whatever its header, none is authorized and no file is
\* ever written.
C3_FailClosed ==
    ~NonEmptyStr(N8N_SECRET_KEY) =>
      /\ last.endpoint = "/api/upload-image"
           => (last.status = 500 /\ last.filesWritten = 0)
      /\ \A r \in Req : req[r].endpoint # "/api/upload-image"
      /\ files = {}
      /\ uuidsIssued = 0

\* a state where the secret is unset and a request without the header (so
\* that header and secret are both None) has been refused
C3_Witness ==
    /\ N8N_SECRET_KEY = None
    /\ last.endpoint = "/api/upload-image"
    /\ last.header = None
    /\ last.status = 500


\* request r, suspended in its catalog fetch, ends in this step
FetchEnds(r) ==
    /\ req[r].pc = "fetching"
    /\ req'[r].pc = "idle"

\* request r, whose dependencies are resolved, runs its catalog handler up
\* to the response or the first await in this step
HandlerRuns(r) ==
    /\ req[r].pc = "ready"
    /\ req[r].endpoint \in CatalogEndpoints
    /\ req'[r].pc # "ready"

\* C4: when the catalog fetch of a request fails (network error, error
\* status, undecodable body) the request is answered 502, both cache
\* entries are exactly what they were before, and the stale payload is not
\* what is returned.
C4_FailedFetchKeepsCache ==
    [][\A r \in Req :
         (FetchEnds(r) /\ last'.outcome # "ok")
           => /\ last'.status = 502
              /\ last'.content = <<"detail">>
              /\ voices_cache' = voices_cache
              /\ avatars_cache' = avatars_cache]_vars

\* a state where a refresh of an expired entry has failed and the entry is
\* still there, still expired
C4_Witness ==
    /\ last.endpoint \in CatalogEndpoints
    /\ last.status = 502
    /\ Truthy(CacheOf(last.endpoint).data)
    /\ last.current_time - CacheOf(last.endpoint).timestamp
         >= CACHE_DURATION_SECONDS

\* C5 as stated: with an entry whose payload (any JSON value but null) a
\* fetch has stored at time T, a catalog
\* request at time t < T + TTL is answered from the entry without a fetch
\* and leaves the entry as it is, and a request at t >= T + TTL fetches.
C5_FreshServedStaleFetched ==
    [][\A r \in Req :
         (HandlerRuns(r) /\ ReceivedAtOf(req[r].endpoint) # NoTime
            /\ CacheOf(req[r].endpoint).data # None)
           => IF clock - CacheOf(req[r].endpoint).timestamp
                   < CACHE_DURATION_SECONDS
              THEN /\ req'[r].pc = "idle"
                   /\ last'.status = 200
                   /\ last'.content = <<CacheOf(req[r].endpoint).data>>
                   /\ heygenCalls' = heygenCalls
                   /\ voices_cache' = voices_cache
                   /\ avatars_cache' = avatars_cache
              ELSE /\ req'[r].pc = "fetching"
                   /\ heygenCalls' # heygenCalls]_vars

\* C6 as stated: a successful fetch into an empty entry returns the fetched
\* payload and stores it with fetchedAt equal to the time of storing.
C6_StampedWhenStored ==
    [][\A r \in Req :
         (FetchEnds(r) /\ last'.outcome = "ok" /\ Truthy(last'.fetched)
            /\ CacheOf(req[r].endpoint).data = None)
           => /\ last'.content = <<last'.fetched>>
              /\ NextCacheOf(req[r].endpoint).data = last'.fetched
              /\ NextCacheOf(req[r].endpoint).timestamp = clock']_vars

\* C6 amended: a successful fetch returns the fetched payload and stores it
\* with fetchedAt equal to the time the request read before it checked the
\* cache and issued the fetch.
C6_StampedWhenRequested ==
    [][\A r \in Req :
         (FetchEnds(r) /\ last'.outcome = "ok")
           => /\ last'.status = 200
              /\ last'.content = <<last'.fetched>>
              /\ NextCacheOf(req[r].endpoint).data = last'.fetched
              /\ NextCacheOf(req[r].endpoint).timestamp = req[r].current_time
              /\ req[r].current_time <= clock']_vars

\* a state where a fetch into an empty entry has succeeded after time
\* advanced while it was in flight
C6_Witness ==
    /\ last.endpoint \in CatalogEndpoints
    /\ last.outcome = "ok"
    /\ Truthy(last.fetched)
    /\ CacheOf(last.endpoint) =
         [data |-> last.fetched, timestamp |-> last.current_time]
    /\ ReceivedAtOf(last.endpoint) > last.current_time
    /\ CallsOf(last.endpoint) = 1


\* C7 as stated: of the catalog requests made to one endpoint within one
\* TTL window that starts with the entry empty, exactly one calls the
\* catalog API (here: the window that starts with the process).
C7_OneCallPerWindow ==
    (clock - StartTime < CACHE_DURATION_SECONDS)
      => /\ heygenCalls.voices <= 1
         /\ heygenCalls.avatars <= 1

\* C7 amended: when a catalog request is handled next after a request to
\* the same endpoint has responded with a successful fetch of a non-empty
\* payload, less than TTL after the time that request read, then the first
\* made one outbound call, the second makes none, and the second returns
\* what the first returned.
C7_SecondServedFromFirst ==
    [][\A r \in Req :
         (/\ HandlerRuns(r)
          /\ last.endpoint = req[r].endpoint
          /\ last.source = "fetch"
          /\ last.outcome = "ok"
          /\ Truthy(last.fetched)
          /\ clock - last.current_time < CACHE_DURATION_SECONDS)
           => /\ req'[r].pc = "idle"
              /\ last'.source = "cache"
              /\ last'.status = 200
              /\ last'.content = last.content
              /\ last.calls = 1
              /\ last'.calls = 0
              /\ heygenCalls' = heygenCalls]_vars

\* a state where the second of two requests has been served from the cache
\* some time after the first, the only one to call the catalog API
C7_Witness ==
    /\ last.endpoint \in CatalogEndpoints
    /\ last.source = "cache"
    /\ last.calls = 0
    /\ CallsOf(last.endpoint) = 1
    /\ last.current_time > CacheOf(last.endpoint).timestamp
    /\ last.content = <<CacheOf(last.endpoint).data>>

\* C10: a payload served from the cache arrived from the catalog API less
\* than TTL before the time of the request it is served to.
C10_ServedYoungerThanTTL ==
    (last.pc = "done" /\ last.source = "cache")
      => /\ last.servedReceivedAt # NoTime
         /\ last.servedReceivedAt <= last.current_time
         /\ last.current_time - last.servedReceivedAt < CACHE_DURATION_SECONDS

\* a state where a request has been served, some time after it arrived, a
\* payload that the earlier of two overlapping fetches stored last
C10_Witness ==
    /\ last.source = "cache"
    /\ last.servedReceivedAt > CacheOf(last.endpoint).timestamp
    /\ last.current_time > last.servedReceivedAt
    /\ CallsOf(last.endpoint) = 2


\* the requests to /api/n8n that have reached the webhook call: the one
\* that responded last, if it made the call, and those suspended in it
Posted ==
    {q \in {last} \cup {req[r] : r \in Req} :
       q.endpoint = "/api/n8n" /\ q.calls = 1}

\* C8: the payload sent to the webhook carries the uid of the verified
\* token, whatever uid the client's body holds, and otherwise the fields of
\* the body as the model N8NBody validates them.
C8_UidFromToken ==
    \A q \in Posted :
      /\ ~BadCredential(q)
      /\ q.sent.uid = verify_id_token(q.token).uid
      /\ q.sent.message = q.body.message
      /\ q.sent.botId = q.body.botId
      /\ q.sent.type = q.body.type
      /\ q.sent.avatarId =
           (IF q.body.avatarId = Absent THEN None ELSE q.body.avatarId)
      /\ q.sent.videoWidth \in {None, "int:640"}
      /\ (q.sent.videoWidth = None) = (q.body.videoWidth = Absent)
      /\ q.sent.voiceId = None
      /\ q.sent.videoHeight = None

\* a state where user u1 has posted a body that names another user's uid
C8_Witness ==
    \E q \in Posted :
      /\ q.body.uid = "u2"
      /\ q.token = "tokA"
      /\ q.sent.uid = "u1"

\* C9 as stated: the response follows from the outcome of the one webhook
\* call: 200 with the webhook's response body as it is, 504 on a timeout,
\* 502 on any other failure.
C9_RelaysVerbatim ==
    (last.pc = "done" /\ last.endpoint = "/api/n8n" /\ last.calls = 1)
      => CASE last.outcome = "ok" ->
                last.status = 200 /\ last.content = last.text
           [] last.outcome = "timeout" -> last.status = 504
           [] OTHER -> last.status = 502

\* C11 as stated: a catalog handler invokes the fetch exactly when its entry
\* holds no payload or now - fetchedAt >= TTL; with a stored result of a
\* successful fetch, whatever JSON value it is (the empty object included),
\* a request within the TTL is answered without a fetch.
C11_FetchOnlyWhenAbsentOrExpired ==
    [][\A r \in Req :
         HandlerRuns(r)
           => ((req'[r].pc = "fetching")
                 <=> \/ CacheOf(req[r].endpoint).data = None
                     \/ clock - CacheOf(req[r].endpoint).timestamp
                          >= CACHE_DURATION_SECONDS)]_vars

\* C12: a cache entry changes only in the step where a request to its own
\* endpoint ends a successful fetch, and that step writes the whole pair:
\* the complete result of that fetch together with the time that same
\* request read. So every entry is the initial one or the (payload,
\* fetchedAt) pair of one request, never the payload of one refresh with
\* the timestamp of another.
C12_PairWrittenByOneRequest ==
    [][\A ep \in CatalogEndpoints :
         NextCacheOf(ep) # CacheOf(ep)
           => \E r \in Req :
                /\ FetchEnds(r)
                /\ req[r].endpoint = ep
                /\ last'.outcome = "ok"
                /\ NextCacheOf(ep) = [data |-> last'.fetched,
                                      timestamp |-> req[r].current_time]]_vars

\* two refreshes of one entry overlapped and both have stored: the entry is
\* the pair of the one that stored last, whose time is older than the
\* arrival of what it stored
C12_Witness ==
    /\ last.endpoint \in CatalogEndpoints
    /\ last.source = "fetch"
    /\ last.outcome = "ok"
    /\ Truthy(last.fetched)
    /\ CallsOf(last.endpoint) = 2
    /\ CacheOf(last.endpoint) = [data |-> last.fetched,
                                 timestamp |-> last.current_time]
    /\ last.current_time < ReceivedAtOf(last.endpoint)

\* a step of a request to endpoint ep: its arrival, its handler or the
\* return of its await
StepOf(r, ep) ==
    /\ req'[r] # req[r]
    /\ ep = IF req[r].pc = "idle" THEN req'[r].endpoint ELSE req[r].endpoint

\* C13 is a statement about two runs of the system that differ in the
\* caller of each request; it has no formula over one behaviour.

\* C14: the voices entry changes only in a step of a request to /api/voices
\* and the avatars entry only in a step of a request to /api/avatars; a step
\* of a request to any other endpoint (/api/me, /api/n8n, /api/upload-image,
\* /), a rejected request and the passing of time leave both entries as
\* they are; and the configured secret, the only other state of the process
\* that handlers read, never changes.
C14_EntriesIndependent ==
    [][/\ voices_cache' # voices_cache
            => \E r \in Req : StepOf(r, "/api/voices")
       /\ avatars_cache' # avatars_cache
            => \E r \in Req : StepOf(r, "/api/avatars")
       /\ \A r \in Req :
            StepOf(r, "/api/voices") => avatars_cache' = avatars_cache
       /\ \A r \in Req :
            StepOf(r, "/api/avatars") => voices_cache' = voices_cache
       /\ \A r \in Req, ep \in {"/", "/api/me", "/api/n8n",
                                "/api/upload-image"} :
            StepOf(r, ep) => /\ voices_cache' = voices_cache
                             /\ avatars_cache' = avatars_cache
       /\ N8N_SECRET_KEY' = N8N_SECRET_KEY]_vars

\* the voices entry holds a payload and a request to /api/avatars has just
\* stored another one in its own entry
C14_Witness ==
    /\ last.endpoint = "/api/avatars"
    /\ last.cacheWrites = 2
    /\ Truthy(avatars_cache.data)
    /\ Truthy(voices_cache.data)
    /\ voices_cache.data # avatars_cache.data

\* the outbound call of the request failed
DownstreamFailed(q) == q.outcome \notin {"-", "ok"}

\* C15: a request makes at most one outbound call and has no response
\* until it ends, when it has exactly one; a request whose outbound call
\* failed made that one call and no other, is answered with an error (502,
\* or 504 for the webhook's timeout) that carries the error detail and no
\* payload, and no request answered with an error has written a cache
\* entry.
C15_OneCallOneResponse ==
    /\ \A r \in Req :
         /\ req[r].calls <= 1
         /\ req[r].status = 0
         /\ req[r].content = <<>>
         /\ req[r].cacheWrites = 0
         /\ req[r].pc \in {"fetching", "posting"} => req[r].calls = 1
    /\ last.pc = "done"
         => /\ last.calls <= 1
            /\ last.status # 0
            /\ DownstreamFailed(last)
                 => /\ last.calls = 1
                    /\ last.status \in {502, 504}
                    /\ last.content = <<"detail">>
            /\ last.status >= 400 => last.cacheWrites = 0

\* a catalog request whose one fetch failed has been answered 502 while
\* its entry holds the payload of an earlier refresh
C15_Witness ==
    /\ last.endpoint \in CatalogEndpoints
    /\ DownstreamFailed(last)
    /\ last.calls = 1
    /\ last.status = 502
    /\ Truthy(CacheOf(last.endpoint).data)

\* C16 as stated: an entry that holds a payload (here one the cache check
\* serves) holds one after every step: no request, failure or passing of
\* time makes it absent again.
C16_NeverAbsentAgain ==
    [][\A ep \in CatalogEndpoints :
         Truthy(CacheOf(ep).data) => NextCacheOf(ep).data # None]_vars

\* C17 as stated: the fetchedAt of an entry that holds a payload never
\* decreases when another payload is stored, whatever the order in which
\* concurrent refreshes start and complete.
C17_FetchedAtNeverDecreases ==
    [][\A ep \in CatalogEndpoints :
         (Truthy(CacheOf(ep).data) /\ Truthy(NextCacheOf(ep).data))
           => NextCacheOf(ep).timestamp >= CacheOf(ep).timestamp]_vars

\* C17, amended: the fetchedAt of an entry is never later than the current
\* time, and it decreases only in the step where a request stores its
\* result that read its time before the present entry was stored (a refresh
\* overtaken by a concurrent one that started later); a refresh by a request
\* that read its time no earlier than that store never decreases it.
C17_DecreasesOnlyWhenOvertaken ==
    [][\A ep \in CatalogEndpoints :
         /\ NextCacheOf(ep).timestamp <= clock'
         /\ NextCacheOf(ep).timestamp < CacheOf(ep).timestamp
              => \E r \in Req :
                   /\ FetchEnds(r)
                   /\ req[r].endpoint = ep
                   /\ req[r].current_time < ReceivedAtOf(ep)]_vars

\* an entry stored at the start time has expired and a second request, not
\* overlapping the first, has refreshed it with its own later time
C17_Witness ==
    /\ last.endpoint \in CatalogEndpoints
    /\ last.source = "fetch"
    /\ last.outcome = "ok"
    /\ CallsOf(last.endpoint) = 2
    /\ last.current_time - StartTime >= CACHE_DURATION_SECONDS
    /\ CacheOf(last.endpoint).timestamp = last.current_time
    /\ ReceivedAtOf(last.endpoint) >= last.current_time

\* request r opens its file in this step
UploadOpens(r) ==
    /\ req[r].pc = "ready"
    /\ req[r].endpoint = "/api/upload-image"
    /\ req'[r].pc = "writing"

\* request r writes the bytes and responds in this step
UploadEnds(r) ==
    /\ req[r].pc = "writing"
    /\ req'[r].pc = "idle"

\* C18: an authorized upload of a file creates exactly one file, which did
\* not exist before, named static/images/ + a newly generated identifier +
\* the extension of the uploaded file's name; it writes the bytes to that
\* file and to no other, so every file of another upload stays as it is and
\* none is removed; and it is answered 200 with imageUrl = base URL + "/" +
\* the path of that file.
C18_UploadWritesOneNewFile ==
    [][/\ \A f \in files :
            \/ f \in files'
            \/ \E r \in Req : UploadEnds(r) /\ req[r].file_path = f.name
                                /\ f.content = "empty"
       /\ \A r \in Req :
            UploadOpens(r)
              => /\ req'[r].file_path \notin {f.name : f \in files}
                 /\ files' = files \cup {[name |-> req'[r].file_path,
                                          content |-> "empty"]}
                 /\ req'[r].file_path
                      = <<"static/images/">> \o uuid4(uuidsIssued')
                          \o splitext(req'[r].filename)
                 /\ uuidsIssued' = uuidsIssued + 1
       /\ \A r \in Req :
            UploadEnds(r)
              => /\ \E image \in Images :
                      files' = (files \ {[name |-> req[r].file_path,
                                          content |-> "empty"]})
                                 \cup {[name |-> req[r].file_path,
                                        content |-> image]}
                 /\ Cardinality(files') = Cardinality(files)
                 /\ last'.status = 200
                 /\ last'.filesWritten = 1
                 /\ \E base_url \in BaseUrls :
                      last'.content = <<"imageUrl", base_url, "/">>
                                        \o req[r].file_path]_vars

\* two uploads of files with the extension .png have ended: two files, each
\* with its bytes, and the second response names the second file
C18_Witness ==
    /\ last.endpoint = "/api/upload-image"
    /\ last.status = 200
    /\ {f.name : f \in files}
         = {<<"static/images/", "uuid", n, ".", "png">> : n \in {1, 2}}
    /\ \A f \in files : f.content \in Images
    /\ last.file_path = <<"static/images/", "uuid", 2, ".", "png">>

====
